---- MODULE Spec2Model ----
(***************************************************************************)
(* Semantic-analysis state of the vtgate query compiler (package           *)
(* semantics): the SemTable with its ordinal-ordered table list, the scope *)
(* tree, the memoized dependency maps, the column-equality registry and    *)
(* the derived-table rewriter.                                             *)
(*                                                                         *)
(* A TableSet (uint64 bitmask) is modelled as the set of its set bit       *)
(* positions, a subset of 0..TableSetBits-1.  An AST node is modelled by   *)
(* its identity (a number): two nodes are the same pointer iff their ids   *)
(* are equal.  A Go panic is modelled as a call whose record in last has   *)
(* panic = TRUE and which changes nothing else.                            *)
(***************************************************************************)
EXTENDS Integers, Sequences, FiniteSets, TLC

VARIABLES
    Tables,            \* SemTable.Tables : sequence of TableInfo
    scopes,            \* the scope tree : sequence of [parent, tables]
    Recursive,         \* SemTable.Recursive : ExprDependencies
    Direct,            \* SemTable.Direct : ExprDependencies (possibly nil)
    ColumnEqualities,  \* SemTable.ColumnEqualities
    last               \* the last call made and what it returned

vars == <<Tables, scopes, Recursive, Direct, ColumnEqualities, last>>

----------------------------------------------------------------------------
(* Bounds of the model. *)

MaxTables == 3        \* tables registered in the scope specification
MaxScopes == 2        \* scopes created in the scope specification
MaxCapTables == 66    \* tables registered in the capacity specification
MaxColTables == 2     \* tables registered in the table-info specification
MaxEqualities == 2    \* expressions recorded under one column key
MaxBits == 3          \* low bit positions of the sets given to the set algebra

(* Width of the TableSet bitmask: type TableSet uint64. *)
TableSetBits == 64

----------------------------------------------------------------------------
(* Table-Set algebra. *)

Min(S) == CHOOSE x \in S : \A y \in S : x <= y

EmptyTableSet == {}

(* 1 << idx on a uint64: a shift count of 64 or more yields 0. *)
SingleBit(idx) == IF idx < TableSetBits THEN {idx} ELSE {}

(* ts >> 1 *)
ShiftRight(ts) == {b - 1 : b \in ts \ {0}}

(* ts & (ts - 1): clears the lowest set bit. *)
ClearLowest(ts) == IF ts = {} THEN {} ELSE ts \ {Min(ts)}

RECURSIVE NumberOfTables(_)
NumberOfTables(ts) ==
    IF ts # {} THEN 1 + NumberOfTables(ClearLowest(ts)) ELSE 0

(* for ts > 1 { ts = ts >> 1; offset++ } *)
RECURSIVE TableOffset(_)
TableOffset(ts) ==
    IF ts # {} /\ ts # {0} THEN 1 + TableOffset(ShiftRight(ts)) ELSE 0

IsOverlapping(ts, b) == (ts \cap b) # {}

IsSolvedByReversed(ts, b) == (ts \cap b) = b

IsSolvedBy(ts, b) == (ts \cap b) = ts

Merge(ts, other) == ts \cup other

----------------------------------------------------------------------------
(* Catalog metadata (vindexes.Table) and column names. *)

TypeNull == "NULL_TYPE"     \* zero value of querypb.Type
TypeInt == "INT64"
TypeVarchar == "VARCHAR"

Col(n, t) == [Name |-> n, Type |-> t]

(* ColIdent.String(): the identifier as written, case preserved. *)
ColString(c) == c

(* Case folding of the identifiers of the model, for strings.EqualFold. *)
Fold(s) ==
    CASE s = "ID" -> "id"
      [] s = "Id" -> "id"
      [] s = "NAME" -> "name"
      [] s = "UID" -> "uid"
      [] s = "T" -> "t"
      [] OTHER -> s

EqualFold(a, b) == Fold(a) = Fold(b)

NilTable ==
    [isNil |-> TRUE, Columns |-> <<>>, ColumnListAuthoritative |-> FALSE,
     ColumnVindexes |-> <<>>]

VTable(cols, auth, vdx) ==
    [isNil |-> FALSE, Columns |-> cols, ColumnListAuthoritative |-> auth,
     ColumnVindexes |-> vdx]

IdName == <<Col("id", TypeInt), Col("name", TypeVarchar)>>

(* The catalog tables the schema lookup hands to the analyzer. *)
Catalog ==
    { NilTable,
      VTable(IdName, TRUE, << <<"ID">> >>),
      VTable(IdName, FALSE, << <<"id">>, <<"uid", "id">> >>),
      VTable(IdName, FALSE, << <<"ID", "uid">> >>),
      VTable(<<Col("Id", TypeInt)>>, FALSE, <<>>) }

ColNames == {"id", "ID", "name", "uid", "missing"}

----------------------------------------------------------------------------
(* Table-Info variants. *)

NoError == "nil"
ErrNonUniqTable == "Not unique table/alias"
ErrNoTableName == "BUG: the AST has changed"
ErrUnknownColumn == "Unknown column in 'field list'"
ErrMultipleTables == "[BUG] should only be used for single tables"

(* An AliasedTableExpr: its identity and the name TableName() derives;    *)
(* an empty name stands for a node TableName() cannot name.               *)
ASTNodeOf(id, name) == [id |-> id, name |-> name]

AliasedTable(node, tbl) == [kind |-> "aliased", ASTNode |-> node, Table |-> tbl]

VindexTable(info) == [kind |-> "vindex", Table |-> info]

AliasedTable_GetExpr(a) == a.ASTNode

VindexTable_GetExpr(v) == AliasedTable_GetExpr(v.Table)

GetExpr(info) ==
    IF info.kind = "vindex" THEN VindexTable_GetExpr(info)
    ELSE AliasedTable_GetExpr(info)

(* AliasedTableExpr.TableName(): the alias or table name, or an error. *)
AliasedTable_Name(a) ==
    IF a.ASTNode.name = "" THEN [err |-> ErrNoTableName, name |-> ""]
    ELSE [err |-> NoError, name |-> a.ASTNode.name]

VindexTable_Name(v) == AliasedTable_Name(v.Table)

Name(info) ==
    IF info.kind = "vindex" THEN VindexTable_Name(info)
    ELSE AliasedTable_Name(info)

AliasedTable_Authoritative(a) ==
    (~a.Table.isNil) /\ a.Table.ColumnListAuthoritative

VindexTable_Authoritative(v) == TRUE

Authoritative(info) ==
    IF info.kind = "vindex" THEN VindexTable_Authoritative(info)
    ELSE AliasedTable_Authoritative(info)

(* The loop over tbl.ColumnVindexes: a column whose name, as written, is   *)
(* not yet a key of nameMap is appended with the zero type.               *)
RECURSIVE AddVindexColumns(_, _, _)
AddVindexColumns(cols, nameMap, names) ==
    IF names = <<>> THEN cols
    ELSE LET name == ColString(Head(names))
         IN  IF name \in nameMap
             THEN AddVindexColumns(cols, nameMap, Tail(names))
             ELSE AddVindexColumns(Append(cols, Col(name, TypeNull)),
                                   nameMap \cup {name}, Tail(names))

RECURSIVE Flatten(_)
Flatten(seqs) == IF seqs = <<>> THEN <<>> ELSE Head(seqs) \o Flatten(Tail(seqs))

vindexTableToColumnInfo(tbl) ==
    IF tbl.isNil THEN <<>>
    ELSE LET cols == [i \in 1..Len(tbl.Columns) |->
                        Col(ColString(tbl.Columns[i].Name), tbl.Columns[i].Type)]
             nameMap == {ColString(tbl.Columns[i].Name) : i \in 1..Len(tbl.Columns)}
         IN  IF tbl.ColumnListAuthoritative THEN cols
             ELSE AddVindexColumns(cols, nameMap, Flatten(tbl.ColumnVindexes))

AliasedTable_GetColumns(a) == vindexTableToColumnInfo(a.Table)

VindexTable_GetColumns(v) == AliasedTable_GetColumns(v.Table)

GetColumns(info) ==
    IF info.kind = "vindex" THEN VindexTable_GetColumns(info)
    ELSE AliasedTable_GetColumns(info)

(* The tri-state dependency result. *)
createCertain(direct, recursive, typ) ==
    [kind |-> "certain", direct |-> direct, recursive |-> recursive, typ |-> typ]

createUncertain(direct, recursive) ==
    [kind |-> "uncertain", direct |-> direct, recursive |-> recursive]

Nothing == [kind |-> "nothing"]

ColumnMatchesExact(info, colName) == info.Name = colName

(* strings.EqualFold(info.Name, colName) *)
ColumnMatches(info, colName) == EqualFold(info.Name, colName)

(* ts is org.tableSetFor(node). *)
depsForAliasedAndRealTables(colName, ts, columns, authoritative) ==
    LET hits == {i \in 1..Len(columns) : ColumnMatches(columns[i], colName)}
    IN  IF hits # {}
        THEN createCertain(ts, ts, columns[Min(hits)].Type)
        ELSE IF authoritative THEN Nothing ELSE createUncertain(ts, ts)

(* AliasedTable.GetExprFor always fails; VindexTable.GetExprFor panics. *)
AliasedTable_GetExprFor(a, col) ==
    [panic |-> FALSE, err |-> ErrUnknownColumn]

VindexTable_GetExprFor(v, col) == [panic |-> TRUE, err |-> NoError]

GetExprFor(info, col) ==
    IF info.kind = "vindex" THEN VindexTable_GetExprFor(info, col)
    ELSE AliasedTable_GetExprFor(info, col)

----------------------------------------------------------------------------
(* SemTable.TableSetFor and scope.addTable. *)

TableSetFor(tables, t) ==
    LET hits == {i \in 1..Len(tables) : t = GetExpr(tables[i]).id}
    IN  IF hits = {} THEN EmptyTableSet ELSE SingleBit(Min(hits) - 1)

SameTableNameFold(tblName, name) == Fold(tblName) = Fold(name)

(* tblName == name.Name.String() *)
SameTableName(tblName, name) == tblName = name

(* The scan of s.tables in addTable: the first table with the same name. *)
Collides(tables, tblName) ==
    \E i \in 1..Len(tables) : SameTableName(tblName, Name(tables[i]).name)

addTable(s, info) ==
    LET name == Name(info)
    IN  IF name.err # NoError THEN [err |-> name.err, tables |-> s.tables]
        ELSE IF Collides(s.tables, name.name)
             THEN [err |-> ErrNonUniqTable, tables |-> s.tables]
             ELSE [err |-> NoError, tables |-> Append(s.tables, info)]

AliasedTable_Dependencies(a, colName, tables) ==
    depsForAliasedAndRealTables(colName, TableSetFor(tables, a.ASTNode.id),
                                AliasedTable_GetColumns(a),
                                AliasedTable_Authoritative(a))

VindexTable_Dependencies(v, colName, tables) ==
    AliasedTable_Dependencies(v.Table, colName, tables)

Dependencies(info, colName, tables) ==
    IF info.kind = "vindex" THEN VindexTable_Dependencies(info, colName, tables)
    ELSE AliasedTable_Dependencies(info, colName, tables)

----------------------------------------------------------------------------
(* Expressions.  The statement's parse tree is an input: AST[n] is the     *)
(* node with identity n.  A ColIdent is an SQLNode that is not an Expr; a  *)
(* ValTuple is a slice type, which Go cannot hash as a map key.            *)
(*   6 : id + 42 IN (name)    4 : id + 42    5 : (name)    7 : id (again)  *)

AST ==
    << [kind |-> "ColName", name |-> "id", children |-> <<8>>],
       [kind |-> "ColName", name |-> "name", children |-> <<9>>],
       [kind |-> "Literal", name |-> "42", children |-> <<>>],
       [kind |-> "BinaryExpr", name |-> "+", children |-> <<1, 3>>],
       [kind |-> "ValTuple", name |-> "", children |-> <<2>>],
       [kind |-> "ComparisonExpr", name |-> "in", children |-> <<4, 5>>],
       [kind |-> "ColName", name |-> "id", children |-> <<10>>],
       [kind |-> "ColIdent", name |-> "id", children |-> <<>>],
       [kind |-> "ColIdent", name |-> "name", children |-> <<>>],
       [kind |-> "ColIdent", name |-> "id", children |-> <<>>] >>

IsExpr(n) == AST[n].kind # "ColIdent"

(* A Go map: the function m from its keys; NilMap is the nil map, which  *)
(* reads as empty and cannot be assigned to.                               *)
EmptyMap == [isNil |-> FALSE, m |-> <<>>]
NilMap == [isNil |-> TRUE, m |-> <<>>]

ExprNodes == {n \in DOMAIN AST : IsExpr(n)}

ColNameNodes == {n \in DOMAIN AST : AST[n].kind = "ColName"}

(* Whether Go can hash the node's dynamic type (reflect Comparable). *)
Comparable(n) == AST[n].kind # "ValTuple"

validAsMapKey(n) == Comparable(n)

MapHas(d, k) == k \in DOMAIN d.m

MapAt(d, k) == d.m[k]

MapPut(d, k, v) ==
    [isNil |-> FALSE,
     m |-> [x \in (DOMAIN d.m) \cup {k} |-> IF x = k THEN v ELSE d.m[x]]]

KontinueAlways(found) == TRUE

(* return !found, nil: the walk goes below a node only on a cache miss. *)
Kontinue(found) == ~found

(* The visitor of sqlparser.Walk in Dependencies, applied in pre-order:    *)
(* the set found so far and the number of nodes visited.                   *)
RECURSIVE WalkNode(_, _)
RECURSIVE WalkList(_, _)
WalkNode(d, n) ==
    IF ~IsExpr(n) \/ ~validAsMapKey(n)
    THEN LET below == WalkList(d, AST[n].children)
         IN  [deps |-> below.deps, visits |-> 1 + below.visits]
    ELSE LET found == MapHas(d, n)
             set == IF found THEN MapAt(d, n) ELSE EmptyTableSet
             below == IF Kontinue(found) THEN WalkList(d, AST[n].children)
                      ELSE [deps |-> EmptyTableSet, visits |-> 0]
         IN  [deps |-> Merge(set, below.deps), visits |-> 1 + below.visits]

WalkList(d, ns) ==
    IF ns = <<>> THEN [deps |-> {}, visits |-> 0]
    ELSE LET h == WalkNode(d, Head(ns))
             t == WalkList(d, Tail(ns))
         IN  [deps |-> Merge(h.deps, t.deps), visits |-> h.visits + t.visits]

MemoizeNothing(d, expr, deps) == d

(* d[expr] = deps *)
Memoize(d, expr, deps) == MapPut(d, expr, deps)

(* ExprDependencies.Dependencies.  d[expr] panics for a key Go cannot      *)
(* hash, and the assignment d[expr] = deps panics on a nil map.            *)
ExprDependencies_Dependencies(d, expr) ==
    IF ~Comparable(expr)
    THEN [panic |-> TRUE, deps |-> {}, d |-> d, visits |-> 0]
    ELSE IF MapHas(d, expr)
         THEN [panic |-> FALSE, deps |-> MapAt(d, expr), d |-> d, visits |-> 0]
         ELSE LET w == WalkNode(d, expr)
              IN  IF d.isNil
                  THEN [panic |-> TRUE, deps |-> {}, d |-> d, visits |-> w.visits]
                  ELSE [panic |-> FALSE, deps |-> w.deps,
                        d |-> Memoize(d, expr, w.deps), visits |-> w.visits]

(* The key of ColumnEqualities. *)
columnName(ts, name) == [Table |-> ts, ColumnName |-> name]

MapGet(d, k) == IF MapHas(d, k) THEN MapAt(d, k) ELSE <<>>

RecordEqualityAlone(ce, k, expr) == MapPut(ce, k, <<expr>>)

(* elem := ce[k]; elem = append(elem, expr); ce[k] = elem *)
RecordEquality(ce, k, expr) == MapPut(ce, k, Append(MapGet(ce, k), expr))

(* GetExprAndEqualities: the result when the lookup of the direct          *)
(* dependencies returned r (r is unused for anything but a ColName).       *)
GetExprAndEqualities(ce, expr, r) ==
    IF AST[expr].kind = "ColName"
    THEN <<expr>> \o MapGet(ce, columnName(r.deps, AST[expr].name))
    ELSE <<expr>>

(* The expression as a term: a clone has the structure, not the identity. *)
RECURSIVE CloneExpr(_)
CloneExpr(n) ==
    [kind |-> AST[n].kind, name |-> AST[n].name,
     args |-> [i \in 1..Len(AST[n].children) |-> CloneExpr(AST[n].children[i])]]

(* sqlparser.Rewrite with the pre-visitor of RewriteDerivedExpression: a   *)
(* ColName is replaced when GetExprFor resolves it and left in place when  *)
(* it fails; its children are not visited either way.                      *)
RECURSIVE RewriteNode(_, _)
RewriteNode(n, vt) ==
    IF AST[n].kind = "ColName"
    THEN LET g == GetExprFor(vt, AST[n].name)
         IN  IF g.panic THEN [panic |-> TRUE, term |-> CloneExpr(n)]
             ELSE IF g.err # NoError THEN [panic |-> FALSE, term |-> CloneExpr(n)]
             ELSE [panic |-> FALSE, term |-> g.expr]
    ELSE LET sub == [i \in 1..Len(AST[n].children) |->
                        RewriteNode(AST[n].children[i], vt)]
         IN  [panic |-> \E i \in DOMAIN sub : sub[i].panic,
              term |-> [kind |-> AST[n].kind, name |-> AST[n].name,
                        args |-> [i \in DOMAIN sub |-> sub[i].term]]]

RewriteDerivedExpression(expr, vt) ==
    LET r == RewriteNode(expr, vt)
    IN  [panic |-> r.panic, expr |-> r.term, err |-> NoError]

(* st.Tables[id.TableOffset()]: an index past the end of the slice panics. *)
TableInfoFor(tables, id) ==
    IF NumberOfTables(id) > 1
    THEN [panic |-> FALSE, found |-> FALSE, err |-> ErrMultipleTables]
    ELSE IF TableOffset(id) < Len(tables)
         THEN [panic |-> FALSE, found |-> TRUE, err |-> NoError,
               info |-> tables[TableOffset(id) + 1]]
         ELSE [panic |-> TRUE, found |-> FALSE, err |-> NoError]

newScope(parent) == [parent |-> parent, tables |-> <<>>]

(* Registration: the table gets the next free ordinal of the statement. *)
AppendTable(tables, info) == Append(tables, info)

----------------------------------------------------------------------------
(* State after NewSemTable(): Recursive and ColumnEqualities are empty     *)
(* maps, every other field is its zero value (Tables empty, Direct a nil   *)
(* map).                                                                   *)

Init ==
    /\ Tables = <<>>
    /\ scopes = <<>>
    /\ Recursive = EmptyMap
    /\ Direct = NilMap
    /\ ColumnEqualities = EmptyMap
    /\ last = [op |-> "NewSemTable"]

----------------------------------------------------------------------------
(* Actions on the table list and the scope tree. *)

NewScope(parent) ==
    /\ scopes' = Append(scopes, newScope(parent))
    /\ last' = [op |-> "newScope", parent |-> parent]
    /\ UNCHANGED <<Tables, Recursive, Direct, ColumnEqualities>>

AddTable(sc, info) ==
    LET r == addTable(scopes[sc], info)
    IN  /\ scopes' = [scopes EXCEPT ![sc].tables = r.tables]
        /\ Tables' = IF r.err = NoError THEN AppendTable(Tables, info) ELSE Tables
        /\ last' = [op |-> "addTable", scope |-> sc, info |-> info,
                    err |-> r.err, before |-> scopes[sc].tables,
                    registered |-> Len(Tables)]
        /\ UNCHANGED <<Recursive, Direct, ColumnEqualities>>

TableSetForCall(t) ==
    /\ last' = [op |-> "TableSetFor", t |-> t, ts |-> TableSetFor(Tables, t)]
    /\ UNCHANGED <<Tables, scopes, Recursive, Direct, ColumnEqualities>>

TableInfoForCall(id) ==
    /\ last' = [op |-> "TableInfoFor", id |-> id, ret |-> TableInfoFor(Tables, id)]
    /\ UNCHANGED <<Tables, scopes, Recursive, Direct, ColumnEqualities>>

DependenciesCall(i, colName) ==
    /\ last' = [op |-> "Dependencies", table |-> i, colName |-> colName,
                deps |-> Dependencies(Tables[i], colName, Tables)]
    /\ UNCHANGED <<Tables, scopes, Recursive, Direct, ColumnEqualities>>

GetColumnsCall(i) ==
    /\ last' = [op |-> "GetColumns", table |-> i, cols |-> GetColumns(Tables[i])]
    /\ UNCHANGED <<Tables, scopes, Recursive, Direct, ColumnEqualities>>

RewriteCall(expr, i) ==
    /\ last' = [op |-> "RewriteDerivedExpression", expr |-> expr, table |-> i,
                ret |-> RewriteDerivedExpression(expr, Tables[i])]
    /\ UNCHANGED <<Tables, scopes, Recursive, Direct, ColumnEqualities>>

(* The binder of the analyzer records the table a column belongs to in     *)
(* both maps; it owns the maps of the artifact it builds.                  *)
Bind(expr, ts) ==
    /\ ~Direct.isNil
    /\ ~MapHas(Direct, expr) /\ ~MapHas(Recursive, expr)
    /\ Direct' = MapPut(Direct, expr, ts)
    /\ Recursive' = MapPut(Recursive, expr, ts)
    /\ last' = [op |-> "bind", expr |-> expr, ts |-> ts]
    /\ UNCHANGED <<Tables, scopes, ColumnEqualities>>

RecursiveDeps(expr) ==
    LET r == ExprDependencies_Dependencies(Recursive, expr)
    IN  /\ Recursive' = r.d
        /\ last' = [op |-> "RecursiveDeps", expr |-> expr, panic |-> r.panic,
                    deps |-> r.deps, visits |-> r.visits]
        /\ UNCHANGED <<Tables, scopes, Direct, ColumnEqualities>>

DirectDeps(expr) ==
    LET r == ExprDependencies_Dependencies(Direct, expr)
    IN  /\ Direct' = r.d
        /\ last' = [op |-> "DirectDeps", expr |-> expr, panic |-> r.panic,
                    deps |-> r.deps, visits |-> r.visits]
        /\ UNCHANGED <<Tables, scopes, Recursive, ColumnEqualities>>

AddColumnEquality(colName, expr) ==
    LET r == ExprDependencies_Dependencies(Direct, colName)
        k == columnName(r.deps, AST[colName].name)
    IN  /\ Direct' = r.d
        /\ ColumnEqualities' =
              IF r.panic THEN ColumnEqualities
              ELSE RecordEquality(ColumnEqualities, k, expr)
        /\ last' = [op |-> "AddColumnEquality", colName |-> colName,
                    expr |-> expr, panic |-> r.panic,
                    before |-> ColumnEqualities]
        /\ UNCHANGED <<Tables, scopes, Recursive>>

GetExprAndEqualitiesCall(expr) ==
    LET isCol == AST[expr].kind = "ColName"
        r == IF isCol THEN ExprDependencies_Dependencies(Direct, expr)
             ELSE [panic |-> FALSE, deps |-> {}, d |-> Direct, visits |-> 0]
    IN  /\ Direct' = r.d
        /\ last' = [op |-> "GetExprAndEqualities", expr |-> expr,
                    panic |-> r.panic,
                    result |-> IF r.panic THEN <<>>
                               ELSE GetExprAndEqualities(ColumnEqualities, expr, r)]
        /\ UNCHANGED <<Tables, scopes, Recursive, ColumnEqualities>>

TableInfoForExprCall(expr) ==
    LET r == ExprDependencies_Dependencies(Direct, expr)
    IN  /\ Direct' = r.d
        /\ last' = [op |-> "TableInfoForExpr", expr |-> expr, id |-> r.deps,
                    ret |-> IF r.panic
                            THEN [panic |-> TRUE, found |-> FALSE, err |-> NoError]
                            ELSE TableInfoFor(Tables, r.deps)]
        /\ UNCHANGED <<Tables, scopes, Recursive, ColumnEqualities>>

(* The next AST table node: a node the statement has not registered yet. *)
FreshNode == Len(Tables) + 1

FreshAlias == "t" \o ToString(FreshNode)

TableNames == {"t", "T", ""}

(* Tables under each name, and a routing-resolved table under one of them. *)
ScopeInfos ==
    {AliasedTable(ASTNodeOf(FreshNode, n), NilTable) : n \in TableNames}
    \cup {VindexTable(AliasedTable(ASTNodeOf(FreshNode, "t"), NilTable))}

Next ==
    \/ \E p \in 0..Len(scopes) : Len(scopes) < MaxScopes /\ NewScope(p)
    \/ \E sc \in 1..Len(scopes), info \in ScopeInfos :
          Len(Tables) < MaxTables /\ AddTable(sc, info)
    \/ \E t \in 1..(Len(Tables) + 1) : TableSetForCall(t)
    \/ \E id \in {{}, {0}, {Len(Tables)}, {0, Len(Tables)}} : TableInfoForCall(id)

Spec == Init /\ [][Next]_vars

(* Capacity: one scope, every table under a fresh alias. *)
NextCap ==
    \/ Len(scopes) < 1 /\ NewScope(0)
    \/ /\ Len(scopes) = 1 /\ Len(Tables) < MaxCapTables
       /\ AddTable(1, AliasedTable(ASTNodeOf(FreshNode, FreshAlias), NilTable))
    \/ \E t \in {1, Len(Tables), Len(Tables) + 1} :
          t >= 1 /\ TableSetForCall(t)

SpecCap == Init /\ [][NextCap]_vars

(* Table-info queries: one scope, tables of every catalog shape. *)
ColInfos ==
    {AliasedTable(ASTNodeOf(FreshNode, FreshAlias), c) : c \in Catalog}
    \cup {VindexTable(AliasedTable(ASTNodeOf(FreshNode, FreshAlias), c)) :
            c \in Catalog}

NextCols ==
    \/ Len(scopes) < 1 /\ NewScope(0)
    \/ \E info \in ColInfos :
          Len(scopes) = 1 /\ Len(Tables) < MaxColTables /\ AddTable(1, info)
    \/ \E i \in 1..Len(Tables), c \in ColNames : DependenciesCall(i, c)
    \/ \E i \in 1..Len(Tables) : GetColumnsCall(i)
    \/ \E i \in 1..Len(Tables), e \in ExprNodes : RewriteCall(e, i)

SpecCols == Init /\ [][NextCols]_vars

(* The artifact the analyzer builds holds the binder's maps, so its       *)
(* Direct map is not nil; NewSemTable() leaves it nil.                     *)
InitArtifact ==
    /\ Tables = <<>>
    /\ scopes = <<>>
    /\ Recursive = EmptyMap
    /\ Direct \in {NilMap, EmptyMap}
    /\ ColumnEqualities = EmptyMap
    /\ last = [op |-> "NewSemTable"]

BoundSets == {{0}, {1}}

(* Dependency lookups while the binder is at work. *)
RECURSIVE Subtree(_)
Subtree(n) ==
    {n} \cup UNION {Subtree(AST[n].children[i]) : i \in 1..Len(AST[n].children)}

(* The expressions of the predicate  id + 42 IN (name). *)
PredicateExprs == Subtree(6) \cap ExprNodes

NextDeps ==
    \/ \E e \in PredicateExprs \cap ColNameNodes, ts \in BoundSets : Bind(e, ts)
    \/ \E e \in PredicateExprs : RecursiveDeps(e)
    \/ \E e \in PredicateExprs : DirectDeps(e)

SpecDeps == InitArtifact /\ [][NextDeps]_vars

Recorded(ce) ==
    LET n[S \in SUBSET (DOMAIN ce.m)] ==
          IF S = {} THEN 0
          ELSE LET k == CHOOSE x \in S : TRUE IN Len(ce.m[k]) + n[S \ {k}]
    IN  n[DOMAIN ce.m]

(* Column equalities recorded by the planner. *)
NextEq ==
    \/ \E e \in ColNameNodes, ts \in BoundSets : Bind(e, ts)
    \/ \E c \in ColNameNodes, e \in {2, 3, 4} :
          Recorded(ColumnEqualities) < MaxEqualities /\ AddColumnEquality(c, e)
    \/ \E e \in ExprNodes \ {5} : GetExprAndEqualitiesCall(e)
    \/ \E e \in ColNameNodes : TableInfoForExprCall(e)

SpecEq == InitArtifact /\ [][NextEq]_vars

(* The set algebra on Table-Sets: values over the low bit positions and   *)
(* the highest one of the bitmask.                                         *)
SetBits == (0..(MaxBits - 1)) \cup {TableSetBits - 1}

IsSolvedByCall(a, b) ==
    /\ last' = [op |-> "IsSolvedBy", a |-> a, b |-> b, ret |-> IsSolvedBy(a, b)]
    /\ UNCHANGED <<Tables, scopes, Recursive, Direct, ColumnEqualities>>

IsOverlappingCall(a, b) ==
    /\ last' = [op |-> "IsOverlapping", a |-> a, b |-> b,
                ret |-> IsOverlapping(a, b)]
    /\ UNCHANGED <<Tables, scopes, Recursive, Direct, ColumnEqualities>>

NextSets ==
    \/ \E a \in SUBSET SetBits, b \in SUBSET SetBits : IsSolvedByCall(a, b)
    \/ \E a \in SUBSET SetBits, b \in SUBSET SetBits : IsOverlappingCall(a, b)

SpecSets == Init /\ [][NextSets]_vars

----------------------------------------------------------------------------
(* Claims. *)

Registered(t) == \E i \in 1..Len(Tables) : GetExpr(Tables[i]).id = t

ScopeNames(tables) == [i \in 1..Len(tables) |-> Name(tables[i]).name]

(* C1: after any sequence of registrations, the table registered at index *)
(* i has TableSetFor equal to the singleton with exactly bit i set, whose  *)
(* TableOffset is i; a node that matches no registered table has the      *)
(* empty set.                                                             *)
C1_OrdinalIsBit ==
    /\ \A i \in 1..Len(Tables) :
          LET ts == TableSetFor(Tables, GetExpr(Tables[i]).id)
          IN  ts = {i - 1} /\ TableOffset(ts) = i - 1
    /\ (last.op = "TableSetFor" /\ ~Registered(last.t)) => last.ts = {}

(* C2: a statement holds at most 64 distinct tables: the registration that *)
(* would assign ordinal 64 fails with an error, so the table list never    *)
(* exceeds the width of the bitmask and no registered table has an empty   *)
(* Table-Set.                                                              *)
C2_CapacityEnforced ==
    /\ (last.op = "addTable" /\ last.registered >= TableSetBits)
          => last.err # NoError
    /\ Len(Tables) <= TableSetBits
    /\ \A i \in 1..Len(Tables) :
          NumberOfTables(TableSetFor(Tables, GetExpr(Tables[i]).id)) = 1

(* C3: addTable fails with the non-unique table/alias error exactly when   *)
(* the scope already holds a table of the same name (compared case-        *)
(* sensitively) and then leaves the scope's list unchanged; otherwise a    *)
(* nameable table is appended, whatever other scopes hold.  The names      *)
(* within one scope are pairwise distinct.                                 *)
C3_UniqueNamesPerScope ==
    /\ \A s \in 1..Len(scopes) :
          \A i, j \in 1..Len(scopes[s].tables) :
             i # j => ScopeNames(scopes[s].tables)[i] # ScopeNames(scopes[s].tables)[j]
    /\ (last.op = "addTable" /\ Name(last.info).err = NoError) =>
          LET nm == Name(last.info).name
              held == \E i \in 1..Len(last.before) :
                         ScopeNames(last.before)[i] = nm
              after == scopes[last.scope].tables
          IN  /\ held => (last.err = ErrNonUniqTable /\ after = last.before)
              /\ ~held => (last.err = NoError /\ after = Append(last.before, last.info))

(* A duplicate is refused in a child scope whose parent holds the name too. *)
C3_Witness ==
    /\ last.op = "addTable" /\ last.err = ErrNonUniqTable
    /\ \E p \in 1..Len(scopes) :
          /\ p # last.scope /\ scopes[last.scope].parent = p
          /\ \E i \in 1..Len(scopes[p].tables) :
                ScopeNames(scopes[p].tables)[i] = Name(last.info).name
    /\ \E s \in 1..Len(scopes) : \E i \in 1..Len(scopes[s].tables) :
          ScopeNames(scopes[s].tables)[i] = "T"

(* C4: for an AliasedTable registered at index i, Dependencies(colName)   *)
(* is Certain with the table's own Table-Set (the one TableSetFor gives    *)
(* its node, the singleton {i} within the width of the bitmask) and the    *)
(* matching column's type when colName equals a listed column name         *)
(* ignoring case; with no match it is Absent when the column list is       *)
(* authoritative and Uncertain with the same Table-Set when it is not.     *)
C4_AliasedDependencies ==
    (last.op = "Dependencies" /\ Tables[last.table].kind = "aliased") =>
        LET a == Tables[last.table]
            ts == IF last.table <= TableSetBits THEN {last.table - 1}
                  ELSE TableSetFor(Tables, a.ASTNode.id)
            cols == GetColumns(a)
            m == {i \in 1..Len(cols) : Fold(cols[i].Name) = Fold(last.colName)}
            auth == (~a.Table.isNil) /\ a.Table.ColumnListAuthoritative
        IN  /\ m # {} =>
                  /\ last.deps.kind = "certain"
                  /\ last.deps.direct = ts /\ last.deps.recursive = ts
                  /\ \E i \in m : last.deps.typ = cols[i].Type
            /\ (m = {} /\ auth) => last.deps.kind = "nothing"
            /\ (m = {} /\ ~auth) =>
                  /\ last.deps.kind = "uncertain"
                  /\ last.deps.direct = ts /\ last.deps.recursive = ts

(* A name written in another case resolves on the second registered table. *)
C4_Witness ==
    /\ last.op = "Dependencies" /\ last.table = 2
    /\ Tables[2].kind = "aliased" /\ Tables[2].Table.ColumnListAuthoritative
    /\ last.colName = "ID" /\ last.deps.kind = "certain"
    /\ last.deps.typ = TypeInt

(* C5: a VindexTable is authoritative whatever it wraps, and as for any    *)
(* authoritative table its Dependencies is Absent, never Uncertain, for a  *)
(* column name that matches none of its columns.                           *)
C5_VindexAuthoritativeContract ==
    /\ \A i \in 1..Len(Tables) :
          Tables[i].kind = "vindex" => Authoritative(Tables[i])
    /\ (last.op = "Dependencies" /\ Tables[last.table].kind = "vindex") =>
          LET cols == GetColumns(Tables[last.table])
          IN  (\A i \in 1..Len(cols) : Fold(cols[i].Name) # Fold(last.colName))
                  => last.deps.kind = "nothing"

C7_TableInfoForDefined ==
    last.op = "TableInfoFor" =>
        /\ NumberOfTables(last.id) > 1 =>
              (~last.ret.panic /\ last.ret.err = ErrMultipleTables)
        /\ (last.id = {} \/ (NumberOfTables(last.id) = 1
                                /\ \A b \in last.id : b >= Len(Tables))) =>
              (~last.ret.panic /\ ~last.ret.found)

(* C8: RewriteDerivedExpression fails with the unknown-column error when   *)
(* the expression holds a column reference GetExprFor cannot resolve, and  *)
(* returns without error only when every column reference was resolved.    *)
C8_RewriteFailsOnUnknownColumn ==
    last.op = "RewriteDerivedExpression" =>
        LET unresolved ==
              \E n \in Subtree(last.expr) \cap ColNameNodes :
                 LET g == GetExprFor(Tables[last.table], AST[n].name)
                 IN  g.panic \/ g.err # NoError
        IN  unresolved => (~last.ret.panic /\ last.ret.err = ErrUnknownColumn)

C10_ColumnsDistinctIgnoringCase ==
    last.op = "GetColumns" =>
        \A i, j \in 1..Len(last.cols) :
            i # j => Fold(last.cols[i].Name) # Fold(last.cols[j].Name)

(* C11: for all Table-Sets a and b, IsSolvedBy(a, b) is true exactly when  *)
(* every table of a is in b, so IsSolvedBy(a, a) is always true; and       *)
(* IsOverlapping(a, b) is true exactly when a and b share at least one     *)
(* table, so it is false for disjoint sets, two distinct singletons        *)
(* included.                                                               *)
C11_SolvedByAndOverlapping ==
    /\ last.op = "IsSolvedBy" =>
          /\ last.ret <=> (\A t \in last.a : t \in last.b)
          /\ last.a = last.b => last.ret
    /\ last.op = "IsOverlapping" =>
          /\ last.ret <=> (\E t \in 0..(TableSetBits - 1) :
                              t \in last.a /\ t \in last.b)
          /\ (NumberOfTables(last.a) = 1 /\ NumberOfTables(last.b) = 1
                 /\ last.a # last.b) => ~last.ret

(* A set is solved by a strict superset that holds the highest bit too. *)
C11_Witness ==
    /\ last.op = "IsSolvedBy" /\ last.ret
    /\ last.a = {0, TableSetBits - 1} /\ last.b = {0, 1, TableSetBits - 1}

(* The nodes of the subtree of expr that lie strictly above n. *)
AncestorsWithin(expr, n) ==
    {a \in Subtree(expr) : a # n /\ n \in Subtree(a)}

(* The cached nodes of the subtree of expr with no cached ancestor in it. *)
TopCached(d, expr) ==
    {n \in Subtree(expr) \cap ExprNodes :
        /\ n \in DOMAIN d.m
        /\ \A a \in AncestorsWithin(expr, n) : a \notin DOMAIN d.m}

C13_NonKeyNeverCached ==
    /\ \A n \in ExprNodes :
          ~validAsMapKey(n) =>
              (n \notin DOMAIN Recursive.m /\ n \notin DOMAIN Direct.m)
    /\ (last.op \in {"RecursiveDeps", "DirectDeps"}
           /\ ~validAsMapKey(last.expr)) => ~last.panic

====
